---- MODULE Spec2Model ----
(***************************************************************************)
(* A model of photo_sorter.py: the date resolver (get_date_taken), the     *)
(* conflict-safe mover (move_file), the tree walker (process_directory),   *)
(* the empty-directory sweep (remove_empty_dirs) and main.                 *)
(*                                                                         *)
(* A file name is a sequence of one-character strings, a path a sequence   *)
(* of names relative to PHOTOS_BASE (both source roots and every           *)
(* destination directory lie below PHOTOS_BASE).  The file system is the   *)
(* pair (dirs, files): the set of directory paths and a function from the  *)
(* paths of regular files to their content.  A file's content is named by  *)
(* the path at which the file was at the start of the run.                 *)
(***************************************************************************)
EXTENDS Integers, Sequences, FiniteSets, TLC

(***************************************************************************)
(* Bounds of the model.                                                    *)
(***************************************************************************)
\* directories and regular files below the source roots in the initial tree
MaxNodes == 3
\* entries already present in the destination in the initial tree
MaxPre == 1

(***************************************************************************)
(* Program constants (photo_sorter.py, lines 27 to 41).                    *)
(***************************************************************************)
MobileBackup == <<"M","o","b","i","l","e","B","a","c","k","u","p">>
PhotoLibrary == <<"P","h","o","t","o","L","i","b","r","a","r","y">>

\* paths relative to PHOTOS_BASE
SOURCE_FOLDERS == << <<MobileBackup>>, <<PhotoLibrary>> >>

PHOTOS_BASE == << >>

MEDIA_EXTS ==
    { <<"j","p","g">>, <<"j","p","e","g">>, <<"p","n","g">>, <<"h","e","i","c">>,
      <<"m","o","v">>, <<"m","p","4">>, <<"g","i","f">>, <<"a","v","i">>,
      <<"m","p","g">>, <<"m","p","e","g">>, <<"c","r","2">>, <<"c","r","3">>,
      <<"n","e","f">>, <<"a","r","w">>, <<"d","n","g">>, <<"r","a","f">>,
      <<"r","w","2">> }

eaDir == <<"@","e","a","D","i","r">>

EXCLUDE_DIRS == { eaDir }

IGNORE_FILES ==
    { <<"T","h","u","m","b","s",".","d","b">>,
      <<".","D","S","_","S","t","o","r","e">>,
      eaDir }

(***************************************************************************)
(* String and path functions of the Python library, as the code uses them. *)
(***************************************************************************)
UpperAZ == <<"A","B","C","D","E","F","G","H","I","J","K","L","M",
             "N","O","P","Q","R","S","T","U","V","W","X","Y","Z">>
LowerAZ == <<"a","b","c","d","e","f","g","h","i","j","k","l","m",
             "n","o","p","q","r","s","t","u","v","w","x","y","z">>

\* str.lower()
Lower(s) ==
    [i \in 1..Len(s) |->
        IF \E k \in 1..26 : UpperAZ[k] = s[i]
        THEN LowerAZ[CHOOSE k \in 1..26 : UpperAZ[k] = s[i]]
        ELSE s[i]]

\* str.rfind("."): the last index of a dot, 0 when there is none
RFindDot(s) ==
    IF \E i \in 1..Len(s) : s[i] = "."
    THEN CHOOSE i \in 1..Len(s) : s[i] = "." /\ \A j \in (i+1)..Len(s) : s[j] # "."
    ELSE 0

\* s.split('.')[-1]: what follows the last dot, the whole string without a dot
SplitLast(s) == SubSeq(s, RFindDot(s) + 1, Len(s))

\* str.startswith
StartsWith(s, p) == Len(p) <= Len(s) /\ SubSeq(s, 1, Len(p)) = p

\* os.path.splitext of a base name: the extension starts at the last dot,
\* unless only dots precede it
Splitext(name) ==
    LET dot == RFindDot(name) IN
    IF dot > 0 /\ \E i \in 1..(dot - 1) : name[i] # "."
    THEN << SubSeq(name, 1, dot - 1), SubSeq(name, dot, Len(name)) >>
    ELSE << name, << >> >>

Digit(n) == <<"0","1","2","3","4","5","6","7","8","9">>[n + 1]

\* str(n) of a natural number: its decimal digits
RECURSIVE Str(_)
Str(n) == IF n < 10 THEN << Digit(n) >> ELSE Str(n \div 10) \o << Digit(n % 10) >>

\* strftime('%Y'): the year's decimal digits
StrfY(date) == Str(date.y)

\* strftime('%m'): the month as two digits
StrfM(date) == << Digit(date.m \div 10), Digit(date.m % 10) >>

\* os.path.join(dir, name), os.path.basename, os.path.dirname
Join(dir, name) == Append(dir, name)
Basename(path) == path[Len(path)]
Dirname(path) == SubSeq(path, 1, Len(path) - 1)

IsPrefix(p, q) == Len(p) <= Len(q) /\ SubSeq(q, 1, Len(p)) = p
IsStrictPrefix(p, q) == Len(p) < Len(q) /\ SubSeq(q, 1, Len(p)) = p

(***************************************************************************)
(* Timestamps.  A datetime is a record [y, m, d]; the time of day plays no *)
(* part in the destination.  None is Python's None.                        *)
(***************************************************************************)
None == [y |-> 0, m |-> 0, d |-> 0]

IsLeap(y) == (y % 4 = 0 /\ y % 100 # 0) \/ y % 400 = 0

DaysIn(y, m) ==
    IF m = 2 THEN (IF IsLeap(y) THEN 29 ELSE 28)
    ELSE IF m \in {4, 6, 9, 11} THEN 30 ELSE 31

\* datetime.strptime(str(tag), '%Y:%m:%d %H:%M:%S') raises ValueError unless
\* the text has the pattern and its fields name a date of the calendar.
\* A tag is [wellformed, y, m, d]: whether its text has the pattern, and
\* the numbers its date fields hold.
StrptimeOk(tag) ==
    /\ tag.wellformed
    /\ tag.y \in 1..9999
    /\ tag.m \in 1..12
    /\ tag.d \in 1..DaysIn(tag.y, tag.m)

Strptime(tag) == [y |-> tag.y, m |-> tag.m, d |-> tag.d]

\* get_date_taken gone wrong: the modification time first
get_date_taken_mtime_first(meta) ==
    IF meta.mtimeOk THEN meta.mtime
    ELSE IF meta.open /\ meta.exif = "tag" /\ StrptimeOk(meta.tag)
    THEN Strptime(meta.tag) ELSE None

\* What get_date_taken reads of a file: whether open() succeeds, what
\* exifread.process_file does ("raises", "notag": no DateTimeOriginal,
\* "tag"), the tag, whether os.path.getmtime succeeds, and the
\* modification time as datetime.fromtimestamp gives it.
get_date_taken(meta) ==
    IF /\ meta.open
       /\ meta.exif = "tag"
       /\ StrptimeOk(meta.tag)
    THEN Strptime(meta.tag)
    ELSE IF meta.mtimeOk THEN meta.mtime ELSE None

(***************************************************************************)
(* The file system: D is the set of directories, F the function from the   *)
(* regular files to their content.                                         *)
(***************************************************************************)
Entries(D, F) == D \cup DOMAIN F

\* no regular file at all
NoFile == [p \in {} |-> << >>]

\* PathExists gone wrong: os.path.isdir in the place of os.path.exists
PathExistsDirOnly(D, F, p) == p \in D

\* os.path.exists
PathExists(D, F, p) == p \in Entries(D, F)

\* os.listdir: the names of the immediate entries of dir
Listdir(D, F, dir) ==
    { Basename(p) : p \in { q \in Entries(D, F) : Len(q) = Len(dir) + 1 /\ IsPrefix(dir, q) } }

\* the non-empty prefixes of a path
Prefixes(p) == { SubSeq(p, 1, n) : n \in 1..Len(p) }

\* os.makedirs(dest, exist_ok=True) raises when a regular file lies on the path
MakedirsRaises(D, F, dest) == \E q \in Prefixes(dest) : q \in DOMAIN F

Makedirs(D, dest) == D \cup Prefixes(dest)

\* f"{base}_{counter}{ext}"
CounterName(base, ext, counter) == base \o <<"_">> \o Str(counter) \o ext

\* FirstFree gone wrong: the first candidate is taken without a look
FirstFreeNoLoop(D, F, dest, base, ext, counter) ==
    Join(dest, CounterName(base, ext, counter))

\* the loop of lines 122 to 128: the first counter whose path does not exist
RECURSIVE FirstFree(_, _, _, _, _, _)
FirstFree(D, F, dest, base, ext, counter) ==
    LET new_dest_path == Join(dest, CounterName(base, ext, counter)) IN
    IF ~ PathExists(D, F, new_dest_path)
    THEN new_dest_path
    ELSE FirstFree(D, F, dest, base, ext, counter + 1)

\* DestPath gone wrong: without the check of line 119
DestPathNoCheck(D, F, src, dest) == Join(dest, Basename(src))

\* lines 117 to 128: the path move_file moves src to
DestPath(D, F, src, dest) ==
    LET dest_path == Join(dest, Basename(src))
        parts == Splitext(Basename(src))
    IN  IF PathExists(D, F, dest_path)
        THEN FirstFree(D, F, dest, parts[1], parts[2], 1)
        ELSE dest_path

\* shutil.move(src, dst) of a regular file to a path that is no directory:
\* os.rename, which puts the file at dst in place of any file there
Rename(F, src, dst) ==
    [p \in (DOMAIN F \ {src}) \cup {dst} |-> IF p = dst THEN F[src] ELSE F[p]]

\* shutil.rmtree
Rmtree(S, dir) == { p \in S : ~ IsPrefix(dir, p) }

RmtreeFiles(F, dir) == [p \in Rmtree(DOMAIN F, dir) |-> F[p]]

\* lines 148 to 149: the filter of remove_empty_dirs
IsIgnored(f) == f \in IGNORE_FILES \/ \E ignore \in IGNORE_FILES : StartsWith(f, ignore)

\* Contents gone wrong: only the subdirectories count as contents
ContentsDirsOnly(D, F, dir_path) == { f \in Listdir(D, NoFile, dir_path) : ~ IsIgnored(f) }

\* lines 147 to 149
Contents(D, F, dir_path) == { f \in Listdir(D, F, dir_path) : ~ IsIgnored(f) }

\* line 173 and line 176
IsMedia(file) == SplitLast(Lower(file)) \in MEDIA_EXTS

\* lines 182 to 184
DestFolder(date_taken) == Join(Join(PHOTOS_BASE, StrfY(date_taken)), StrfM(date_taken))

\* Prune gone wrong: nothing is pruned
PruneNothing(ds) == ds

\* line 170
Prune(ds) == { d \in ds : Basename(d) \notin EXCLUDE_DIRS }

(***************************************************************************)
(* The state.                                                              *)
(*   dirs, files     the file system below PHOTOS_BASE                     *)
(*   dirs0, files0   the file system at the start of the run               *)
(*   pc, idx         where main is: the loop of lines 198 to 203 ("main"), *)
(*                   the walk or the sweep of process_directory for        *)
(*                   SOURCE_FOLDERS[idx], returned ("done"), or ended by   *)
(*                   an exception nothing caught ("crashed")               *)
(*   walkStack       os.walk of line 168: the directories still to enter,  *)
(*                   one set per level, the deepest level first            *)
(*   curFiles        the files of the current directory still to handle    *)
(*   sweepLeft       os.walk of line 142: the directories still to yield   *)
(*   sweepCur        the subdirectories of the yielded directory that      *)
(*                   line 143 has still to handle                          *)
(*   log             what the logger has written, with the timestamp a     *)
(*                   moved file was resolved to                            *)
(*   mv              two concurrent invocations inside move_file           *)
(*   dt              one call of get_date_taken: its input and its result  *)
(***************************************************************************)
VARIABLES dirs, files, dirs0, files0, pc, idx, walkStack, curFiles,
          sweepLeft, sweepCur, log, mv, dt

vars == << dirs, files, dirs0, files0, pc, idx, walkStack, curFiles,
           sweepLeft, sweepCur, log, mv, dt >>

LogEntry(kind, path, dst, date) ==
    [kind |-> kind, path |-> path, dst |-> dst, date |-> date]

(***************************************************************************)
(* The names and inputs the initial states are drawn from.                 *)
(***************************************************************************)
Roots == { SOURCE_FOLDERS[i] : i \in 1..Len(SOURCE_FOLDERS) }

\* a plain name, the excluded name, and a name that only starts with it
DirNames == { <<"s","u","b">>, eaDir, <<"@","e","a","D","i","r","2">> }

FileNames ==
    { <<"a",".","j","p","g">>, <<"B",".","J","P","G">>,
      <<"n",".","t","x","t">>, <<".","D","S","_","S","t","o","r","e">> }

Date1 == [y |-> 2023, m |-> 5, d |-> 10]
Date2 == [y |-> 2022, m |-> 11, d |-> 2]

\* entries that may be in the destination before the run: files of
\* 2023/05 and a regular file named 2022, where a year directory would go
PreSlots ==
    { << <<"2","0","2","3">>, <<"0","5">>, <<"a",".","j","p","g">> >>,
      << <<"2","0","2","3">>, <<"0","5">>, <<"a","_","1",".","j","p","g">> >>,
      << <<"2","0","2","2">> >> }

\* the subsets of S with at most k elements
RECURSIVE KSubsets(_, _)
KSubsets(S, k) ==
    IF k = 0 THEN { {} }
    ELSE LET prev == KSubsets(S, k - 1) IN
         prev \cup { T \cup {x} : T \in prev, x \in S }

\* the sets of at most k directories below the directories R, each with
\* its parent in the set or in R
RECURSIVE Trees(_, _)
Trees(R, k) ==
    IF k = 0 THEN { {} }
    ELSE LET prev == Trees(R, k - 1) IN
         prev \cup UNION { { T \cup { Join(d, n) } : d \in R \cup T, n \in DirNames } :
                           T \in prev }

NoTag == [wellformed |-> FALSE, y |-> 0, m |-> 0, d |-> 0]

\* what the walker's calls of get_date_taken may read of a file
WalkMetas ==
    { [open |-> TRUE, exif |-> "tag",
       tag |-> [wellformed |-> TRUE, y |-> 2023, m |-> 5, d |-> 10],
       mtimeOk |-> TRUE, mtime |-> Date2],
      [open |-> TRUE, exif |-> "notag", tag |-> NoTag,
       mtimeOk |-> TRUE, mtime |-> Date2],
      [open |-> TRUE, exif |-> "tag",
       tag |-> [wellformed |-> TRUE, y |-> 0, m |-> 0, d |-> 0],
       mtimeOk |-> TRUE, mtime |-> Date1],
      [open |-> FALSE, exif |-> "raises", tag |-> NoTag,
       mtimeOk |-> FALSE, mtime |-> None] }

MvIdle ==
    [i \in {1, 2} |->
        [pc |-> "idle", src |-> << >>, dest |-> << >>, dest_path |-> << >>, counter |-> 0]]

DtIdle == [meta |-> [open |-> FALSE, exif |-> "raises", tag |-> NoTag,
                     mtimeOk |-> FALSE, mtime |-> None],
           called |-> FALSE, result |-> None]

Init ==
    \E R \in SUBSET Roots :
    \E T \in Trees(R, MaxNodes) :
    \E Fs \in KSubsets({ Join(d, f) : d \in R \cup T, f \in FileNames },
                       MaxNodes - Cardinality(T)) :
    \E P \in KSubsets(PreSlots, MaxPre) :
        /\ dirs = R \cup T \cup UNION { Prefixes(Dirname(p)) : p \in P }
        /\ files = [p \in Fs \cup P |-> p]
        /\ dirs0 = dirs
        /\ files0 = files
        /\ pc = "main"
        /\ idx = 1
        /\ walkStack = << >>
        /\ curFiles = {}
        /\ sweepLeft = {}
        /\ sweepCur = {}
        /\ log = {}
        /\ mv = MvIdle
        /\ dt = DtIdle

(***************************************************************************)
(* main, lines 193 to 203.                                                 *)
(***************************************************************************)
MainProcess ==
    /\ pc = "main"
    /\ idx <= Len(SOURCE_FOLDERS)
    /\ PathExists(dirs, files, SOURCE_FOLDERS[idx])
    /\ log' = log \cup { LogEntry("processing", SOURCE_FOLDERS[idx], << >>, None) }
    /\ pc' = "walk"
    /\ walkStack' = << { SOURCE_FOLDERS[idx] } >>
    /\ curFiles' = {}
    /\ UNCHANGED << dirs, files, dirs0, files0, idx, sweepLeft, sweepCur, mv, dt >>

MainMissing ==
    /\ pc = "main"
    /\ idx <= Len(SOURCE_FOLDERS)
    /\ ~ PathExists(dirs, files, SOURCE_FOLDERS[idx])
    /\ log' = log \cup { LogEntry("missing", SOURCE_FOLDERS[idx], << >>, None) }
    /\ idx' = idx + 1
    /\ UNCHANGED << dirs, files, dirs0, files0, pc, walkStack, curFiles,
                    sweepLeft, sweepCur, mv, dt >>

MainExit ==
    /\ pc = "main"
    /\ idx > Len(SOURCE_FOLDERS)
    /\ pc' = "done"
    /\ UNCHANGED << dirs, files, dirs0, files0, idx, walkStack, curFiles,
                    sweepLeft, sweepCur, log, mv, dt >>

(***************************************************************************)
(* process_directory, lines 161 to 191: the walk.                          *)
(***************************************************************************)
RECURSIVE PopEmpty(_)
PopEmpty(st) == IF st # << >> /\ Head(st) = {} THEN PopEmpty(Tail(st)) ELSE st

\* os.walk enters a directory: it lists it, the code prunes the excluded
\* subdirectories (line 170), and the files are handled before any
\* subdirectory is entered
WalkEnter ==
    /\ pc = "walk"
    /\ curFiles = {}
    /\ walkStack # << >>
    /\ \E root \in Head(walkStack) :
         LET subdirs == { d \in dirs : Len(d) > 0 /\ Dirname(d) = root }
             listed == { f \in DOMAIN files : Dirname(f) = root }
         IN  /\ walkStack' = PopEmpty(<< Prune(subdirs), Head(walkStack) \ {root} >>
                                      \o Tail(walkStack))
             /\ curFiles' = listed
    /\ UNCHANGED << dirs, files, dirs0, files0, pc, idx, sweepLeft, sweepCur,
                    log, mv, dt >>

\* move_file, lines 108 to 131, when nothing raises: the file system after it
move_file(D, F, src, dest) ==
    LET D1 == Makedirs(D, dest)
        dest_path == DestPath(D1, F, src, dest)
    IN  [dirs |-> D1, files |-> Rename(F, src, dest_path), dest_path |-> dest_path]

\* one pass of the loop of line 172.  An exception of move_file is caught
\* nowhere: not in process_directory, not in main.
WalkFile ==
    /\ pc = "walk"
    /\ \E path \in curFiles :
         /\ curFiles' = curFiles \ {path}
         /\ IF ~ IsMedia(Basename(path))
            THEN /\ log' = log \cup { LogEntry("skip_ext", path, << >>, None) }
                 /\ UNCHANGED << dirs, files, pc >>
            ELSE \E meta \in WalkMetas, ioerr \in BOOLEAN :
                   LET date_taken == get_date_taken(meta) IN
                   IF date_taken = None
                   THEN /\ log' = log \cup { LogEntry("skip_nodate", path, << >>, None) }
                        /\ UNCHANGED << dirs, files, pc >>
                   ELSE LET dest_folder == DestFolder(date_taken) IN
                        IF MakedirsRaises(dirs, files, dest_folder)
                        THEN /\ pc' = "crashed"
                             /\ dirs' = dirs \cup { q \in Prefixes(dest_folder) :
                                                      Prefixes(q) \cap DOMAIN files = {} }
                             /\ UNCHANGED << files, log >>
                        ELSE IF ioerr
                        THEN /\ pc' = "crashed"
                             /\ dirs' = Makedirs(dirs, dest_folder)
                             /\ UNCHANGED << files, log >>
                        ELSE LET after == move_file(dirs, files, path, dest_folder) IN
                             /\ dirs' = after.dirs
                             /\ files' = after.files
                             /\ log' = log \cup
                                  { LogEntry("moved", path, after.dest_path, date_taken) }
                             /\ UNCHANGED pc
    /\ UNCHANGED << dirs0, files0, idx, walkStack, sweepLeft, sweepCur, mv, dt >>

\* the walk is over: line 191 calls remove_empty_dirs(source_dir)
WalkDone ==
    /\ pc = "walk"
    /\ curFiles = {}
    /\ walkStack = << >>
    /\ pc' = "sweep"
    /\ sweepLeft' = { d \in dirs : IsPrefix(SOURCE_FOLDERS[idx], d) }
    /\ sweepCur' = {}
    /\ UNCHANGED << dirs, files, dirs0, files0, idx, walkStack, curFiles, log, mv, dt >>

(***************************************************************************)
(* remove_empty_dirs, lines 133 to 159.                                    *)
(***************************************************************************)
\* YieldReady gone wrong: topdown=True, a directory before its subdirectories
YieldReadyTopDown(root, left) == \A d \in left : ~ IsStrictPrefix(d, root)

\* os.walk(path, topdown=False) yields a directory after all its subdirectories
YieldReady(root, left) == \A d \in left : ~ IsStrictPrefix(root, d)

SweepYield ==
    /\ pc = "sweep"
    /\ sweepCur = {}
    /\ \E root \in sweepLeft :
         /\ YieldReady(root, sweepLeft)
         /\ sweepLeft' = sweepLeft \ {root}
         /\ sweepCur' = { d \in dirs : Len(d) > 0 /\ Dirname(d) = root }
    /\ UNCHANGED << dirs, files, dirs0, files0, pc, idx, walkStack, curFiles,
                    log, mv, dt >>

\* one pass of the loop of line 143; ok is whether shutil.rmtree succeeds
\* (a failure is taken to delete nothing)
SweepDir ==
    /\ pc = "sweep"
    /\ \E dir_path \in sweepCur :
         /\ sweepCur' = sweepCur \ {dir_path}
         /\ IF Contents(dirs, files, dir_path) = {}
            THEN \E ok \in BOOLEAN :
                   IF ok
                   THEN /\ dirs' = Rmtree(dirs, dir_path)
                        /\ files' = RmtreeFiles(files, dir_path)
                        /\ log' = log \cup { LogEntry("removed", dir_path, << >>, None) }
                   ELSE /\ log' = log \cup { LogEntry("rm_failed", dir_path, << >>, None) }
                        /\ UNCHANGED << dirs, files >>
            ELSE UNCHANGED << dirs, files, log >>
    /\ UNCHANGED << dirs0, files0, pc, idx, walkStack, curFiles, sweepLeft, mv, dt >>

\* process_directory returns to the loop of main
SweepDone ==
    /\ pc = "sweep"
    /\ sweepCur = {}
    /\ sweepLeft = {}
    /\ pc' = "main"
    /\ idx' = idx + 1
    /\ UNCHANGED << dirs, files, dirs0, files0, walkStack, curFiles,
                    sweepLeft, sweepCur, log, mv, dt >>

Next ==
    \/ MainProcess
    \/ MainMissing
    \/ MainExit
    \/ WalkEnter
    \/ WalkFile
    \/ WalkDone
    \/ SweepYield
    \/ SweepDir
    \/ SweepDone

Spec == Init /\ [][Next]_vars

(***************************************************************************)
(* Vocabulary of the properties.                                           *)
(***************************************************************************)
RootIdx == 1..Len(SOURCE_FOLDERS)

\* process_directory(SOURCE_FOLDERS[i]) was called and has returned
Returned(i) == idx > i /\ SOURCE_FOLDERS[i] \in dirs0

\* p lies below a source root
InSource(p) == \E r \in Roots : IsStrictPrefix(r, p)

\* the file p lies, at some depth, below a subdirectory with an excluded name
BelowExcluded(p) == InSource(p) /\ \E j \in 2..(Len(p) - 1) : p[j] \in EXCLUDE_DIRS

\* p is a subdirectory with an excluded name, or lies below one
ExcludedOrBelow(p) == InSource(p) /\ \E j \in 2..Len(p) : p[j] \in EXCLUDE_DIRS

Moved == { e \in log : e.kind = "moved" }

Skipped == { e \in log : e.kind \in {"skip_ext", "skip_nodate"} }

DestFiles(F) == { p \in DOMAIN F : ~ InSource(p) }

\* the number a sequence of decimal digits writes
RECURSIVE DigitsVal(_)
DigitsVal(s) ==
    IF s = << >> THEN 0
    ELSE 10 * DigitsVal(SubSeq(s, 1, Len(s) - 1))
         + (CHOOSE n \in 0..9 : Digit(n) = s[Len(s)])

\* the run is over: main returned, or an exception ended the program
RunOver == pc \in {"done", "crashed"}

(***************************************************************************)
(* C1.  A failure of the mover for one file never ends the run: the other  *)
(* files of the source root and the later source roots are still           *)
(* processed and the sweep still runs.  Stated of the end of a run: every  *)
(* source root that exists has been walked and swept, and main returned.   *)
(***************************************************************************)
C1_MoveFailureNeverEndsRun ==
    RunOver =>
        /\ pc = "done"
        /\ \A i \in RootIdx : SOURCE_FOLDERS[i] \in dirs0 => Returned(i)

C3_Step ==
    \A e \in log' \ log :
        e.kind = "moved" =>
            LET name == Basename(e.path)
                base == Splitext(name)[1]
                ext == Splitext(name)[2]
                E == dirs \cup DOMAIN files
            IN  /\ Len(e.dst) = Len(PHOTOS_BASE) + 3
                /\ LET year == e.dst[Len(PHOTOS_BASE) + 1]
                       month == e.dst[Len(PHOTOS_BASE) + 2]
                       folder == PHOTOS_BASE \o << year, month >>
                   IN  /\ Len(year) = 4 /\ DigitsVal(year) = e.date.y
                       /\ Len(month) = 2 /\ DigitsVal(month) = e.date.m
                       /\ IF Join(folder, name) \notin E
                          THEN e.dst = Join(folder, name)
                          ELSE \E k \in 1..(Cardinality(E) + 1) :
                                 /\ e.dst = Join(folder, base \o <<"_">> \o Str(k) \o ext)
                                 /\ e.dst \notin E
                                 /\ \A j \in 1..(k - 1) :
                                      Join(folder, base \o <<"_">> \o Str(j) \o ext) \in E
                /\ e.path \notin DOMAIN files'
                /\ e.dst \in DOMAIN files' /\ files'[e.dst] = files[e.path]

C6_ExcludedNeverVisited ==
    /\ \A p \in curFiles : ~ BelowExcluded(p)
    /\ \A e \in Moved \cup Skipped : ~ BelowExcluded(e.path)
    /\ \A p \in DOMAIN files0 :
         BelowExcluded(p) => \A q \in DestFiles(files) : files[q] # files0[p]

\* the walk of a root is over that held a media file below an excluded
\* subdirectory and another file in a directory of the same root
C6_Witness ==
    \E i \in RootIdx :
        /\ pc = "sweep" /\ idx = i /\ sweepLeft # {}
        /\ \E p \in DOMAIN files0 :
             /\ IsPrefix(SOURCE_FOLDERS[i], p)
             /\ BelowExcluded(p)
             /\ IsMedia(Basename(p))
             /\ p \in DOMAIN files
        /\ \E e \in Moved \cup Skipped : IsPrefix(SOURCE_FOLDERS[i], e.path)

(***************************************************************************)
(* C7.  After process_directory returned without a deletion failure, no    *)
(* directory strictly below the source root is left whose immediate        *)
(* entries are all ignorable junk, or which has no entry.                  *)
(***************************************************************************)
C7_NoJunkOnlyDirLeft ==
    \A i \in RootIdx :
        ( /\ Returned(i)
          /\ ~ \E e \in log : e.kind = "rm_failed" /\ IsPrefix(SOURCE_FOLDERS[i], e.path) )
        => \A d \in dirs :
             IsStrictPrefix(SOURCE_FOLDERS[i], d)
             => \E f \in Listdir(dirs, files, d) : ~ IsIgnored(f)

\* a directory and its parent were both removed, and the child's name is
\* no junk: the parent had only junk once the child was gone
C7_Witness ==
    \E i \in RootIdx :
        /\ Returned(i)
        /\ \E e1, e2 \in log :
             /\ e1.kind = "removed" /\ e2.kind = "removed"
             /\ IsStrictPrefix(SOURCE_FOLDERS[i], e1.path)
             /\ Dirname(e2.path) = e1.path
             /\ ~ IsIgnored(Basename(e2.path))

(***************************************************************************)
(* C8.  A source root that held only media files, all of them moved, and   *)
(* no subdirectory, does not exist any more after process_directory.       *)
(***************************************************************************)
C8_SourceRootRemoved ==
    \A i \in RootIdx :
        ( /\ Returned(i)
          /\ ~ \E d \in dirs0 : IsStrictPrefix(SOURCE_FOLDERS[i], d)
          /\ \E p \in DOMAIN files0 : IsStrictPrefix(SOURCE_FOLDERS[i], p)
          /\ \A p \in DOMAIN files0 :
               IsStrictPrefix(SOURCE_FOLDERS[i], p)
               => IsMedia(Basename(p)) /\ \E e \in Moved : e.path = p )
        => SOURCE_FOLDERS[i] \notin dirs

(***************************************************************************)
(* C9.  A file the walker left in place (unknown extension, or no          *)
(* timestamp) whose name is no ignorable junk is still at its path, with   *)
(* its content, after process_directory returned.                          *)
(***************************************************************************)
C9_SkippedFileKept ==
    \A e \in Skipped :
        ( /\ ~ IsIgnored(Basename(e.path))
          /\ \E i \in RootIdx : Returned(i) /\ IsPrefix(SOURCE_FOLDERS[i], e.path) )
        => e.path \in DOMAIN files /\ files[e.path] = files0[e.path]

JunkOnly(D, F, d) ==
    \A q \in D \cup DOMAIN F :
        (Len(q) = Len(d) + 1 /\ IsPrefix(d, q)) => IsIgnored(Basename(q))

\* d directly holds a file with a name that is no junk and that the walker
\* does not move: it has no media extension, or it lies below an excluded name
Anchored(d) ==
    \E f \in DOMAIN files0 :
        /\ Dirname(f) = d
        /\ ~ IsIgnored(Basename(f))
        /\ (BelowExcluded(f) \/ ~ IsMedia(Basename(f)))

C5_Kept ==
    \A e \in dirs0 :
        ( /\ InSource(e)
          /\ Basename(e) \in EXCLUDE_DIRS
          /\ \A a \in Prefixes(e) : Len(a) >= 2 => Anchored(a) )
        => /\ e \in dirs
           /\ \A f \in DOMAIN files0 :
                Dirname(f) = e => f \in DOMAIN files /\ files[f] = files0[f]

C5_Step ==
    \A p \in (dirs \cup DOMAIN files) \ (dirs' \cup DOMAIN files') :
        ExcludedOrBelow(p) =>
            \E d \in dirs \ dirs' :
                /\ InSource(d)
                /\ IsPrefix(d, p)
                /\ JunkOnly(dirs, files, d)

TagValues ==
    [wellformed : BOOLEAN, y : {0, 2023, 2024}, m : {0, 2, 5, 13}, d : {0, 10, 29, 30, 32}]

MetaValues ==
    { meta \in [open : BOOLEAN, exif : {"raises", "notag", "tag"},
                tag : TagValues \cup {NoTag},
                mtimeOk : BOOLEAN, mtime : {Date1, Date2, None}] :
        /\ (~ meta.open => meta.exif = "raises")
        /\ (meta.exif # "tag" => meta.tag = NoTag)
        /\ (~ meta.mtimeOk <=> meta.mtime = None) }

InitDate ==
    /\ dt \in [meta : MetaValues, called : {FALSE}, result : {None}]
    /\ dirs = {}
    /\ files = NoFile
    /\ dirs0 = {}
    /\ files0 = NoFile
    /\ pc = "date"
    /\ idx = 1
    /\ walkStack = << >>
    /\ curFiles = {}
    /\ sweepLeft = {}
    /\ sweepCur = {}
    /\ log = {}
    /\ mv = MvIdle

Resolve ==
    /\ ~ dt.called
    /\ dt' = [dt EXCEPT !.called = TRUE, !.result = get_date_taken(dt.meta)]
    /\ UNCHANGED << dirs, files, dirs0, files0, pc, idx, walkStack, curFiles,
                    sweepLeft, sweepCur, log, mv >>

NextDate == Resolve

SpecDate == InitDate /\ [][NextDate]_vars

\* the tag's text has the pattern and names a day of the calendar
ValidOriginalDate(tag) ==
    /\ tag.wellformed
    /\ tag.y >= 1 /\ tag.y <= 9999
    /\ tag.m >= 1 /\ tag.m <= 12
    /\ tag.d >= 1
    /\ tag.d <= CASE tag.m \in {1, 3, 5, 7, 8, 10, 12} -> 31
                  [] tag.m \in {4, 6, 9, 11} -> 30
                  [] OTHER -> IF tag.y % 4 = 0 /\ (tag.y % 100 # 0 \/ tag.y % 400 = 0)
                              THEN 29 ELSE 28

Embedded(meta) == meta.open /\ meta.exif = "tag" /\ ValidOriginalDate(meta.tag)

(***************************************************************************)
(* C4.  get_date_taken returns the embedded original date whenever the     *)
(* file can be read and carries a valid one, whatever the modification     *)
(* time; otherwise, also when reading or parsing the metadata failed, the  *)
(* modification time; and None when that cannot be had either.  Every      *)
(* call returns.                                                           *)
(***************************************************************************)
C4_DatePrecedence ==
    dt.called =>
        /\ Embedded(dt.meta)
           => dt.result = [y |-> dt.meta.tag.y, m |-> dt.meta.tag.m, d |-> dt.meta.tag.d]
        /\ (~ Embedded(dt.meta) /\ dt.meta.mtimeOk) => dt.result = dt.meta.mtime
        /\ (~ Embedded(dt.meta) /\ ~ dt.meta.mtimeOk) => dt.result = None

\* a call returned the embedded date of a file whose modification time differs
C4_Witness ==
    /\ dt.called
    /\ Embedded(dt.meta)
    /\ dt.meta.mtimeOk
    /\ dt.meta.mtime # dt.result
    /\ dt.result # None

(***************************************************************************)
(* Two invocations of the program at the same time, each inside move_file  *)
(* (lines 116 to 130) for a file of its own.  Every system call is a step  *)
(* of its own; nothing orders the steps of the two processes.              *)
(***************************************************************************)
Procs == {1, 2}

ConcSources ==
    { << MobileBackup, <<"a",".","j","p","g">> >>,
      << MobileBackup, <<"B",".","J","P","G">> >>,
      << PhotoLibrary, <<"a",".","j","p","g">> >>,
      << PhotoLibrary, <<"B",".","J","P","G">> >> }

InitConc ==
    \E s1 \in ConcSources, s2 \in ConcSources, P \in SUBSET PreSlots :
    \E d1 \in {Date1, Date2}, d2 \in {Date1, Date2} :
        /\ dirs = Roots \cup UNION { Prefixes(Dirname(p)) : p \in P }
        /\ files = [p \in {s1, s2} \cup P |-> p]
        /\ dirs0 = dirs
        /\ files0 = files
        /\ mv = [i \in Procs |->
                   [pc |-> "makedirs",
                    src |-> IF i = 1 THEN s1 ELSE s2,
                    dest |-> DestFolder(IF i = 1 THEN d1 ELSE d2),
                    dest_path |-> << >>,
                    counter |-> 0]]
        /\ pc = "conc"
        /\ idx = 1
        /\ walkStack = << >>
        /\ curFiles = {}
        /\ sweepLeft = {}
        /\ sweepCur = {}
        /\ log = {}
        /\ dt = DtIdle

ConcFrame == << dirs0, files0, pc, idx, walkStack, curFiles, sweepLeft, sweepCur, log, dt >>

\* line 116; an exception ends that process
MvMakedirs(i) ==
    /\ mv[i].pc = "makedirs"
    /\ IF MakedirsRaises(dirs, files, mv[i].dest)
       THEN /\ mv' = [mv EXCEPT ![i].pc = "crashed"]
            /\ UNCHANGED dirs
       ELSE /\ mv' = [mv EXCEPT ![i].pc = "check"]
            /\ dirs' = Makedirs(dirs, mv[i].dest)
    /\ UNCHANGED files
    /\ UNCHANGED ConcFrame

\* lines 117 to 121
MvCheck(i) ==
    /\ mv[i].pc = "check"
    /\ LET dest_path == Join(mv[i].dest, Basename(mv[i].src)) IN
       IF PathExists(dirs, files, dest_path)
       THEN mv' = [mv EXCEPT ![i].pc = "loop", ![i].counter = 1]
       ELSE mv' = [mv EXCEPT ![i].pc = "move", ![i].dest_path = dest_path]
    /\ UNCHANGED << dirs, files >>
    /\ UNCHANGED ConcFrame

\* lines 122 to 128: one pass of the loop
MvLoop(i) ==
    /\ mv[i].pc = "loop"
    /\ LET parts == Splitext(Basename(mv[i].src))
           new_dest_path == Join(mv[i].dest, CounterName(parts[1], parts[2], mv[i].counter))
       IN  IF ~ PathExists(dirs, files, new_dest_path)
           THEN mv' = [mv EXCEPT ![i].pc = "move", ![i].dest_path = new_dest_path]
           ELSE mv' = [mv EXCEPT ![i].counter = mv[i].counter + 1]
    /\ UNCHANGED << dirs, files >>
    /\ UNCHANGED ConcFrame

\* line 130; the move of a file that is gone raises, which ends that process
MvMove(i) ==
    /\ mv[i].pc = "move"
    /\ IF mv[i].src \in DOMAIN files
       THEN /\ files' = Rename(files, mv[i].src, mv[i].dest_path)
            /\ mv' = [mv EXCEPT ![i].pc = "done"]
       ELSE /\ mv' = [mv EXCEPT ![i].pc = "crashed"]
            /\ UNCHANGED files
    /\ UNCHANGED dirs
    /\ UNCHANGED ConcFrame

NextConc == \E i \in Procs : MvMakedirs(i) \/ MvCheck(i) \/ MvLoop(i) \/ MvMove(i)

SpecConc == InitConc /\ [][NextConc]_vars

Range(f) == { f[x] : x \in DOMAIN f }

(***************************************************************************)
(* C10.  Two concurrent invocations are not protected against overwriting  *)
(* each other: a moved file is lost exactly by the race in which both      *)
(* processes found the same destination path free before either moved.     *)
(* A file is lost only when both processes have moved to one and the same  *)
(* path, and it is then one of the two moved files, never a file that was  *)
(* in the destination before; the witness is the state in which that       *)
(* happened.                                                               *)
(***************************************************************************)
C10_LostOnlyByRace ==
    /\ \A p \in DestFiles(files0) : p \in DOMAIN files /\ files[p] = files0[p]
    /\ (\E c \in Range(files0) : c \notin Range(files))
       => /\ mv[1].pc = "done" /\ mv[2].pc = "done"
          /\ mv[1].dest_path = mv[2].dest_path

\* both processes moved their file to the same path: one file replaced the other
C10_Witness ==
    /\ mv[1].pc = "done" /\ mv[2].pc = "done"
    /\ mv[1].dest_path = mv[2].dest_path
    /\ Cardinality(DOMAIN files) = Cardinality(DOMAIN files0) - 1
    /\ \E i \in Procs : files0[mv[i].src] \notin Range(files)

====
